---- MODULE Spec2Model ----
(***************************************************************************)
(* Offline-sync layer of the project-management app: the key-value store   *)
(* adapter and the cache / mutation queue built on it (lib/storage), the   *)
(* network monitor, the sync engine and the offline-aware facade           *)
(* (lib/offline.ts).                                                       *)
(*                                                                         *)
(* Every async function is cut at its awaits: one action per resumption.   *)
(* A store access takes effect in the step that completes it.  Values that *)
(* the program keeps as strings are modelled structurally:                 *)
(*   `temp_${Date.now()}`                   <<"temp", now>>                *)
(*   `temp_${Date.now()}_${Math.random()}`  <<"temp", now, r>>             *)
(*   `cache_${key}`                         <<"cache">> \o key             *)
(*   `milestones_${projectId}`              <<"milestones">> \o projectId  *)
(* undefined / null is the empty tuple, a present value v is <<v>>.        *)
(* Payloads are JSON values (strings and numbers in flat objects), the     *)
(* domain on which JSON.parse(JSON.stringify(v)) yields v again; the store *)
(* holds the JSON text, written JSON_stringify(v).                         *)
(***************************************************************************)
EXTENDS Integers, Sequences, FiniteSets, TLC

\* ------------------------------------------------------------------ bounds
MaxOps == 2         \* operations ever pushed onto the mutation queue
MaxTicks == 2       \* advances of the wall clock
MaxListeners == 2   \* registrations in networkListeners
MaxRestarts == 1    \* process restarts
MaxReplays == 2     \* successful replays of one operation when its removal fails

\* ------------------------------------------------------- program constants
DefaultTTL == 3600000

\* --------------------------------------------------------------- the domain
Null == <<>>
Some(v) == <<v>>
OrElse(opt, dflt) == IF opt = Null THEN dflt ELSE opt[1]

CallSlots == {1}
\* the callers of the specification with two calls in progress at once
RaceSlots == {1, 2}
DrainSlots == {1}
\* the passes that can be in progress at once when connectivity flaps
FlapSlots == {1, 2}
ListenerIds == {"L1", "L2"}

RealIds == {<<"p1">>}
ProjectInputs == {[name |-> "a"]}
ProjectUpdates == {[name |-> "c"]}
MilestoneInputs == {[title |-> "m", project_id |-> <<"p1">>]}
\* the lists the remote service may answer a select with
RemoteProjects == {<<>>, <<[id |-> <<"p1">>, name |-> "a"]>>}
RemoteMilestones == {<<>>, <<[id |-> <<"m1">>, title |-> "m", project_id |-> <<"p1">>]>>}
\* how far the clock may jump in one advance
Advances == {1, DefaultTTL}

QueueKey == <<"offline_queue">>
\* variant: a cache entry is stored under the bare cache key
CacheKey_unprefixed(key) == key
\* `cache_${key}`
CacheKey(key) == <<"cache">> \o key
\* the cache keys in use; the last is a cache key that spells the queue's store key
CacheNames ==
  {<<"projects">>, <<"milestones">>} \cup {<<"milestones">> \o p : p \in RealIds}
    \cup {<<"offline_queue">>}
StoreKeys == {QueueKey} \cup {CacheKey(k) : k \in CacheNames}

VARIABLES
  isOnline,          \* the module's connectivity flag
  networkListeners,  \* the registered callbacks, in registration order
  monitoring,        \* the platform subscription: "none", "active", "stopped"
  store,             \* the persistent key-value store: key -> Null or JSON text
  now,               \* Date.now()
  ticks,             \* clock advances so far
  calls,             \* facade / storage calls in progress, per caller
  drains,            \* syncOfflineData passes in progress
  pushed,            \* history: the argument of every push; pushed[u] has uid u
  written,           \* history: uids whose queue write reached the store
  okCount,           \* history: uid -> remote calls of its replay that succeeded
  lastEvent,         \* history: what the last connectivity event did
  lastCreated,       \* history: table -> record the last offline create returned
  fresh,             \* history: cache name -> last remote read cached there
  bootUids,          \* history: uids in the persisted queue at the last restart
  restarts           \* history: process restarts so far

vars == <<isOnline, networkListeners, monitoring, store, now, ticks, calls, drains,
          pushed, written, okCount, lastEvent, lastCreated, fresh, bootUids, restarts>>

\* ------------------------------------------------------------ sequences
RECURSIVE SelectIdx(_, _, _)
\* the elements of s whose index (offset k) is in the set keep, in order
SelectIdx(s, keep, k) ==
  IF s = <<>> THEN <<>>
  ELSE (IF (k + 1) \in keep THEN <<Head(s)>> ELSE <<>>) \o SelectIdx(Tail(s), keep, k + 1)

Range(s) == {s[i] : i \in 1..Len(s)}
Uids(q) == {q[i].uid : i \in 1..Len(q)}

\* ------------------------------------------------- key-value store adapter
JSON_stringify(v) == <<v>>
JSON_parse(text) == text[1]

\* getData: the parsed value, null when the key is absent
getData(key) == IF store[key] # Null THEN Some(JSON_parse(store[key])) ELSE Null
\* storeData / removeData: the store after the write
storeData(st, key, value) == [st EXCEPT ![key] = JSON_stringify(value)]
removeData(st, key) == [st EXCEPT ![key] = Null]

Queue == OrElse(getData(QueueKey), <<>>)

\* ----------------------------------------------------------- call records
\* One caller's call in progress: the function called (kind), where it is
\* suspended (pc) and its locals.
NoCall ==
  [kind |-> "none", pc |-> "idle",
   online |-> TRUE,      \* the branch taken at `if (isOnline)`
   op |-> Null,          \* queueOperation's argument
   key |-> <<>>,         \* the cache name the call works on
   projectId |-> Null,   \* the id argument
   lq |-> <<>>,          \* queueOperation's local `queue` after the push
   rec |-> Null,         \* tempProject / tempMilestone
   item |-> Null,        \* getCachedData's cacheItem
   readAt |-> 0,         \* Date.now() in getCachedData
   wr |-> Null,          \* cacheData's cacheItem
   remote |-> 0,         \* remote calls this call issued
   failed |-> FALSE,     \* its remote call was rejected
   answer |-> Null,      \* what its remote call resolved to
   result |-> Null,      \* the value the call resolved to
   threw |-> FALSE,      \* the call rejected
   sawFresh |-> Null,    \* history: fresh[key] when the cache was read
   wrote |-> FALSE,      \* history: the call wrote its cache entry
   missed |-> FALSE,     \* history: a store access of the call failed
   stale |-> FALSE]      \* history: the queue was written between its read and its write

Idle(c) == calls[c].pc = "idle"
Done(c) == calls[c].pc = "done"
PushesPending == Cardinality({c \in DOMAIN calls : calls[c].pc = "q_read"})
\* MaxOps caps the operations ever pushed
MayPush == Len(pushed) + PushesPending < MaxOps

CreateKinds == {"createProject", "createMilestone"}
GetKinds == {"getProjects", "getMilestones"}
WriteKinds == CreateKinds \cup {"updateProject"}

\* the record the remote answers an insert / update with
RemoteRow(id, data) == [id |-> id] @@ data

\* `{ ...data, id: `temp_${Date.now()}`, created_at, updated_at }`
TempRecord(data, t) == [id |-> <<"temp", t>>, created_at |-> t, updated_at |-> t] @@ data

\* `{ ...project, ...updates, updated_at: new Date().toISOString() }`
MergeUpdates(project, updates, t) == [updated_at |-> t] @@ updates @@ project

\* variant: only the matching records are kept
MapUpdates_matchingOnly(list, projectId, updates, t) ==
  LET hits == SelectSeq(list, LAMBDA project : project.id = projectId)
  IN [i \in 1..Len(hits) |-> MergeUpdates(hits[i], updates, t)]

\* cachedProjects.map(project => project.id === projectId ? merged : project)
MapUpdates(list, projectId, updates, t) ==
  [i \in 1..Len(list) |->
     IF list[i].id = projectId THEN MergeUpdates(list[i], updates, t) ELSE list[i]]

\* updatedProjects.find(p => p.id === projectId): the first match, or undefined
Find(list, projectId) ==
  LET hits == {i \in 1..Len(list) : list[i].id = projectId}
  IN IF hits = {} THEN Null
     ELSE Some(list[CHOOSE i \in hits : \A j \in hits : i <= j])

\* cacheData's item: { data, timestamp: Date.now(), ttl }
CacheItem(data, t, ttl) == [data |-> data, timestamp |-> t, ttl |-> ttl]

\* variant: an entry expires as soon as its age reaches the ttl
isExpired_atTTL(item, t) == t - item.timestamp >= item.ttl

\* getCachedData's test: Date.now() - timestamp > ttl
isExpired(item, t) == t - item.timestamp > item.ttl

\* variant: every queued operation gets a generated id
QueuedId_generated(op, t, r) == <<"temp", t, r>>

\* The id queueOperation stores: operation.id || `temp_${Date.now()}_${Math.random()}`.
\* Math.random() is taken fresh for every push (r counts the pushes).
QueuedId(op, t, r) == IF op.id # Null THEN op.id ELSE <<"temp", t, r>>

\* variant: the queue read is dropped, the list holds the new operation only
PushOp_alone(queue, op, t, r) ==
  <<[type |-> op.type, table |-> op.table, data |-> op.data,
     timestamp |-> t, id |-> QueuedId(op, t, r), uid |-> r]>>

\* variant: queue.unshift instead of queue.push
PushOp_unshift(queue, op, t, r) ==
  <<[type |-> op.type, table |-> op.table, data |-> op.data,
     timestamp |-> t, id |-> QueuedId(op, t, r), uid |-> r]>> \o queue

\* queue.push({ ...operation, timestamp: Date.now(), id })
PushOp(queue, op, t, r) ==
  Append(queue, [type |-> op.type, table |-> op.table, data |-> op.data,
                 timestamp |-> t, id |-> QueuedId(op, t, r), uid |-> r])

\* queue.filter(op => op.id !== operationId)
FilterQueue(queue, operationId) ==
  SelectSeq(queue, LAMBDA op : op.id # operationId)

SetCall(c, r) == calls' = [calls EXCEPT ![c] = r]

\* ------------------------------------------------------------ the facade
\* Each facade function up to its first await.
UnchangedNet == UNCHANGED <<isOnline, networkListeners, monitoring, lastEvent>>
UnchangedHist == UNCHANGED <<pushed, written, okCount, lastCreated, fresh, bootUids, restarts>>

StartCall(c, kind, key, op, projectId) ==
  /\ Idle(c)
  /\ IF isOnline
     THEN SetCall(c, [NoCall EXCEPT !.kind = kind, !.pc = "remote", !.online = TRUE,
                        !.key = key, !.op = op, !.projectId = projectId, !.remote = 1])
     ELSE /\ kind \in GetKinds \/ MayPush
          /\ SetCall(c, [NoCall EXCEPT !.kind = kind, !.online = isOnline,
                           !.pc = IF kind \in GetKinds THEN "c_read" ELSE "q_read",
                           !.key = key, !.op = op, !.projectId = projectId])
  /\ UNCHANGED <<store, now, ticks, drains>>
  /\ UnchangedNet /\ UnchangedHist

createProject(c, projectData) ==
  StartCall(c, "createProject", <<"projects">>,
            Some([type |-> "create", table |-> "projects", data |-> projectData, id |-> Null]),
            Null)

updateProject(c, projectId, updates) ==
  StartCall(c, "updateProject", <<"projects">>,
            Some([type |-> "update", table |-> "projects", data |-> updates,
                  id |-> projectId]),
            projectId)

createMilestone(c, milestoneData) ==
  StartCall(c, "createMilestone", <<"milestones">>,
            Some([type |-> "create", table |-> "milestones", data |-> milestoneData,
                  id |-> Null]),
            Null)

getProjects(c) == StartCall(c, "getProjects", <<"projects">>, Null, Null)

\* cacheKey = projectId ? `milestones_${projectId}` : 'milestones'
getMilestones(c, projectId) ==
  StartCall(c, "getMilestones", <<"milestones">> \o projectId, Null, projectId)

\* --------------------------------------- the storage API, called directly
StartStorageCall(c, r) ==
  /\ Idle(c)
  /\ SetCall(c, r)
  /\ UNCHANGED <<store, now, ticks, drains>>
  /\ UnchangedNet /\ UnchangedHist

\* offlineStorage.cacheData(key, data, ttl) up to its await of storeData
cacheData(c, key, data, ttl) ==
  StartStorageCall(c, [NoCall EXCEPT !.kind = "cacheData", !.key = key,
                                     !.wr = Some(CacheItem(data, now, ttl)),
                                     !.pc = "c_write"])

\* offlineStorage.getCachedData(key) up to its await of getData
getCachedData(c, key) ==
  StartStorageCall(c, [NoCall EXCEPT !.kind = "getCachedData", !.key = key,
                                     !.pc = "c_read"])

\* offlineStorage.queueOperation(operation) up to its await of getData
queueOperation(c, operation) ==
  /\ MayPush
  /\ StartStorageCall(c, [NoCall EXCEPT !.kind = "queueOperation", !.op = Some(operation),
                                        !.pc = "q_read"])

\* offlineStorage.getQueuedOperations() up to its await of getData
getQueuedOperations(c) ==
  StartStorageCall(c, [NoCall EXCEPT !.kind = "getQueuedOperations", !.pc = "gq_read"])

\* offlineStorage.clearQueuedOperations() up to its await of removeData
clearQueuedOperations(c) ==
  StartStorageCall(c, [NoCall EXCEPT !.kind = "clearQueuedOperations", !.pc = "cq_remove"])

\* ------------------------------------------------------ drain records
\* One syncOfflineData pass: its local queuedOperations (snapshot), the
\* index of the operation the loop is at, and what the pass has done so far.
NoDrain ==
  [pc |-> "idle",
   snapshot |-> <<>>,    \* queuedOperations
   i |-> 0,              \* position of the for-of loop
   lq |-> <<>>,          \* removeQueuedOperation's filteredQueue
   ran |-> FALSE,        \* the pass got past `if (!isOnline) return`
   issued |-> <<>>,      \* history: uids whose remote call the pass issued, in order
   settled |-> 0,        \* history: remote calls of the pass that resolved or rejected
   failed |-> {},        \* history: positions whose remote call was rejected
   alone |-> TRUE,       \* history: nothing else wrote the queue during the pass
   missed |-> FALSE,     \* history: a store access of the pass failed
   endQueue |-> <<>>]    \* history: the persisted queue when the pass ended

Active(dr) == dr.pc \notin {"idle", "done"}
FreeDrains == {d \in DrainSlots : ~Active(drains[d])}

\* processQueuedOperation's switch: the dbHelpers call an operation is
\* replayed with, "none" where no branch matches.
processQueuedOperation(op) ==
  CASE op.table = "projects" ->
         (CASE op.type = "create" -> "createProject"
            [] op.type = "update" -> "updateProject"
            [] op.type = "delete" -> "deleteProject"
            [] OTHER -> "none")
    [] op.table = "milestones" ->
         (CASE op.type = "create" -> "createMilestone"
            [] op.type = "update" -> "updateMilestone"
            [] OTHER -> "none")
    [] op.table = "outsourcing" ->
         (CASE op.type = "create" -> "createOutsourcing"
            [] op.type = "update" -> "updateOutsourcing"
            [] OTHER -> "none")
    [] op.table = "payments" ->
         (CASE op.type = "create" -> "createPayment"
            [] op.type = "update" -> "updatePayment"
            [] OTHER -> "none")
    [] OTHER -> "none"

\* variant: the loop stops as soon as the device is offline
LoopAt_whileOnline(dr, i, q) ==
  IF i > Len(dr.snapshot) \/ ~isOnline
  THEN [dr EXCEPT !.pc = "done", !.i = i, !.endQueue = q]
  ELSE IF processQueuedOperation(dr.snapshot[i]) = "none"
       THEN [dr EXCEPT !.pc = "rm_read", !.i = i]
       ELSE [dr EXCEPT !.pc = "await", !.i = i,
                       !.issued = Append(@, dr.snapshot[i].uid)]

\* The for-of loop reaching position i with the persisted queue being q:
\* past the end the pass returns; otherwise the operation's remote call is
\* issued (or, with no matching branch, processQueuedOperation resolves at
\* once and the removal starts).
LoopAt(dr, i, q) ==
  IF i > Len(dr.snapshot)
  THEN [dr EXCEPT !.pc = "done", !.i = i, !.endQueue = q]
  ELSE IF processQueuedOperation(dr.snapshot[i]) = "none"
       THEN [dr EXCEPT !.pc = "rm_read", !.i = i]
       ELSE [dr EXCEPT !.pc = "await", !.i = i,
                       !.issued = Append(@, dr.snapshot[i].uid)]

\* syncOfflineData up to its first await, called with the flag being `online`
syncOfflineData(online) ==
  IF ~online THEN [NoDrain EXCEPT !.pc = "done"]
  ELSE [NoDrain EXCEPT !.pc = "read", !.ran = TRUE]

\* a queue write by someone else disturbs every pass in progress but d
Disturb(d) ==
  [e \in DOMAIN drains |->
     IF e # d /\ Active(drains[e]) THEN [drains[e] EXCEPT !.alone = FALSE] ELSE drains[e]]

\* ------------------------------------------------------ steps of a call
\* What the caller of getCachedData does with its answer `data`, at time t.
AfterCached(call, data, t) ==
  CASE call.kind = "getCachedData" ->
         [call EXCEPT !.result = data, !.pc = "done"]
    [] call.kind \in GetKinds ->
         [call EXCEPT !.result = Some(OrElse(data, <<>>)), !.pc = "done"]
    [] call.kind \in CreateKinds ->
         \* cachedProjects.unshift(tempProject); cacheData(key, cachedProjects)
         [call EXCEPT !.wr = Some(CacheItem(<<call.rec[1]>> \o OrElse(data, <<>>),
                                            t, DefaultTTL)),
                      !.pc = "c_write"]
    [] call.kind = "updateProject" ->
         [call EXCEPT !.wr = Some(CacheItem(MapUpdates(OrElse(data, <<>>), call.projectId,
                                                       call.op[1].data, t),
                                            t, DefaultTTL)),
                      !.pc = "c_write"]

\* variant: a read returns the remote answer without caching it
remoteResolved_uncached(call, answer, t) ==
  [call EXCEPT !.answer = Some(answer), !.result = Some(answer), !.pc = "done"]

\* variant: every online call caches what the remote answered
remoteResolved_cachesAll(call, answer, t) ==
  [call EXCEPT !.answer = Some(answer),
               !.wr = Some(CacheItem(<<answer>>, t, DefaultTTL)),
               !.pc = "c_write"]

\* An online facade call whose remote call resolved with `answer`, at time t:
\* a read goes on to cacheData(key, answer), a write returns the answer.
remoteResolved(call, answer, t) ==
  IF call.kind \in GetKinds
  THEN [call EXCEPT !.answer = Some(answer),
                    !.wr = Some(CacheItem(answer, t, DefaultTTL)),
                    !.pc = "c_write"]
  ELSE [call EXCEPT !.answer = Some(answer), !.result = Some(answer), !.pc = "done"]

\* variant: a read has no catch either
remoteRejected_uncaught(call) ==
  [call EXCEPT !.failed = TRUE, !.threw = TRUE, !.pc = "done"]

\* An online facade call whose remote call rejected: a read catches and falls
\* back to getCachedData(key); a write has no catch and rejects.
remoteRejected(call) ==
  IF call.kind \in GetKinds
  THEN [call EXCEPT !.failed = TRUE, !.pc = "c_read"]
  ELSE [call EXCEPT !.failed = TRUE, !.threw = TRUE, !.pc = "done"]

\* the remote call of an online facade call settles
RemoteReturn(c, ok, answer) ==
  /\ calls[c].pc = "remote"
  /\ SetCall(c, IF ok THEN remoteResolved(calls[c], answer, now)
                ELSE remoteRejected(calls[c]))
  /\ UNCHANGED <<store, now, ticks, drains>>
  /\ UnchangedNet /\ UnchangedHist

\* what the remote may answer the call of slot c with
RemoteAnswers(c) ==
  LET call == calls[c] IN
  CASE call.kind = "getProjects" -> RemoteProjects
    [] call.kind = "getMilestones" -> RemoteMilestones
    [] call.kind \in CreateKinds -> {RemoteRow(id, call.op[1].data) : id \in RealIds}
    [] call.kind = "updateProject" -> {RemoteRow(call.projectId, call.op[1].data)}
    [] OTHER -> {}

remoteResolves(c) == \E answer \in RemoteAnswers(c) : RemoteReturn(c, TRUE, answer)
remoteRejects(c) == RemoteReturn(c, FALSE, Null)

\* queueOperation with `getData('offline_queue') || []` being `queue`: push,
\* then storeData
queueOperation_pushOn(c, queue, missed) ==
  LET call == calls[c]
      lq == PushOp(queue, call.op[1], now, Len(pushed) + 1)
  IN /\ call.pc = "q_read"
     /\ SetCall(c, [call EXCEPT !.lq = lq, !.pc = "q_write", !.missed = missed])
     /\ pushed' = Append(pushed, call.op[1])
     /\ UNCHANGED <<store, now, ticks, drains, written, okCount, lastCreated, fresh,
                    bootUids, restarts>>
     /\ UnchangedNet

\* queueOperation, getData('offline_queue') resolved
queueOperation_push(c) == queueOperation_pushOn(c, Queue, FALSE)

\* queueOperation, the store read failed: getData catches, logs and returns
\* null, so the push is made on []
queueOperation_readFails(c) == queueOperation_pushOn(c, <<>>, TRUE)

\* what queueOperation's caller does once queueOperation has resolved
AfterQueued(call) ==
  CASE call.kind \in CreateKinds ->
         [call EXCEPT !.rec = Some(TempRecord(call.op[1].data, now)), !.pc = "c_read"]
    [] call.kind = "updateProject" -> [call EXCEPT !.pc = "c_read"]
    [] OTHER -> [call EXCEPT !.pc = "done"]

\* queueOperation, the store write failed: storeData catches and logs, the
\* queue in the store is as it was and the caller goes on
queueOperation_storeFails(c) ==
  LET call == calls[c] IN
  /\ call.pc = "q_write"
  /\ SetCall(c, AfterQueued([call EXCEPT !.missed = TRUE]))
  /\ UNCHANGED <<store, now, ticks, drains>>
  /\ UnchangedNet /\ UnchangedHist

\* variant: the caller goes on without the queue write having been made
queueOperation_store_unwritten(c) == queueOperation_storeFails(c)

\* queueOperation, storeData('offline_queue', queue) resolved; the facade goes on
\* to build its optimistic record and to call getCachedData
queueOperation_store(c) ==
  LET call == calls[c] IN
  /\ call.pc = "q_write"
  /\ store' = storeData(store, QueueKey, call.lq)
  /\ written' = written \cup Uids(call.lq)
  /\ drains' = Disturb(0)
  /\ calls' = [e \in DOMAIN calls |->
                 IF e = c THEN AfterQueued(call)
                 ELSE IF calls[e].pc = "q_write" THEN [calls[e] EXCEPT !.stale = TRUE]
                 ELSE calls[e]]
  /\ UNCHANGED <<now, ticks, pushed, okCount, lastCreated, fresh, bootUids, restarts>>
  /\ UnchangedNet

\* getCachedData, getData(`cache_${key}`) resolved
getCachedData_read(c) ==
  LET call == calls[c]
      item == getData(CacheKey(call.key))
      seen == [call EXCEPT !.item = item, !.readAt = now, !.sawFresh = fresh[call.key]]
  IN /\ call.pc = "c_read"
     /\ SetCall(c, IF item = Null THEN AfterCached(seen, Null, now)
                   ELSE IF isExpired(item[1], now) THEN [seen EXCEPT !.pc = "c_evict"]
                   ELSE AfterCached(seen, Some(item[1].data), now))
     /\ UNCHANGED <<store, now, ticks, drains>>
     /\ UnchangedNet /\ UnchangedHist

\* getCachedData, removeData(`cache_${key}`) of an expired entry resolved
getCachedData_evict(c) ==
  LET call == calls[c] IN
  /\ call.pc = "c_evict"
  /\ store' = removeData(store, CacheKey(call.key))
  /\ fresh' = [fresh EXCEPT ![call.key] = Null]
  /\ SetCall(c, AfterCached(call, Null, now))
  /\ UNCHANGED <<now, ticks, drains, pushed, written, okCount, lastCreated, bootUids, restarts>>
  /\ UnchangedNet

\* getQueuedOperations, getData('offline_queue') resolved: the list, or []
getQueuedOperations_read(c) ==
  LET call == calls[c] IN
  /\ call.pc = "gq_read"
  /\ SetCall(c, [call EXCEPT !.result = Some(OrElse(getData(QueueKey), <<>>)),
                             !.pc = "done"])
  /\ UNCHANGED <<store, now, ticks, drains>>
  /\ UnchangedNet /\ UnchangedHist

\* clearQueuedOperations, removeData('offline_queue') resolved
clearQueuedOperations_remove(c) ==
  LET call == calls[c] IN
  /\ call.pc = "cq_remove"
  /\ store' = removeData(store, QueueKey)
  /\ drains' = Disturb(0)
  /\ calls' = [e \in DOMAIN calls |->
                 IF e = c THEN [call EXCEPT !.pc = "done"]
                 ELSE IF calls[e].pc = "q_write" THEN [calls[e] EXCEPT !.stale = TRUE]
                 ELSE calls[e]]
  /\ UNCHANGED <<now, ticks>>
  /\ UnchangedNet /\ UnchangedHist

\* the table a facade call's records belong to
TableOf(call) == call.key[1]

\* cacheData, storeData(`cache_${key}`, cacheItem) resolved; the caller returns
cacheData_store(c) ==
  LET call == calls[c] IN
  /\ call.pc = "c_write"
  /\ store' = storeData(store, CacheKey(call.key), call.wr[1])
  /\ SetCall(c, [call EXCEPT
                   !.pc = "done", !.wrote = TRUE,
                   !.result = CASE call.kind \in CreateKinds -> call.rec
                                [] call.kind = "updateProject" ->
                                     Find(call.wr[1].data, call.projectId)
                                [] call.kind \in GetKinds -> call.answer
                                [] OTHER -> Null])
  /\ fresh' = [fresh EXCEPT ![call.key] =
                 IF call.kind \in GetKinds
                 THEN Some([data |-> call.answer[1], at |-> call.wr[1].timestamp])
                 ELSE Null]
  /\ lastCreated' = IF call.kind \in CreateKinds
                    THEN [lastCreated EXCEPT ![TableOf(call)] = call.rec]
                    ELSE lastCreated
  /\ UNCHANGED <<now, ticks, drains, pushed, written, okCount, bootUids, restarts>>
  /\ UnchangedNet

\* the caller takes the settled call's outcome
Return(c) ==
  /\ Done(c)
  /\ SetCall(c, NoCall)
  /\ UNCHANGED <<store, now, ticks, drains>>
  /\ UnchangedNet /\ UnchangedHist

\* ---------------------------------------------------- steps of a drain
UnchangedCalls == UNCHANGED <<calls, pushed, written, lastCreated, fresh, bootUids, restarts>>

\* an explicit call of the exported syncOfflineData
syncOfflineData_call(d) ==
  /\ d \in FreeDrains
  /\ drains' = [drains EXCEPT ![d] = syncOfflineData(isOnline)]
  /\ UNCHANGED <<store, now, ticks, okCount>>
  /\ UnchangedNet /\ UnchangedCalls

\* getQueuedOperations resolved: the loop starts on the list read
syncOfflineData_read(d) ==
  LET dr == drains[d] IN
  /\ dr.pc = "read"
  /\ drains' = [drains EXCEPT ![d] = LoopAt([dr EXCEPT !.snapshot = Queue], 1, Queue)]
  /\ UNCHANGED <<store, now, ticks, okCount>>
  /\ UnchangedNet /\ UnchangedCalls

\* the remote call of processQueuedOperation resolves:
\* removeQueuedOperation(operation.id) is called
syncOfflineData_resolved(d) ==
  LET dr == drains[d] IN
  /\ dr.pc = "await"
  /\ okCount' = [okCount EXCEPT ![dr.snapshot[dr.i].uid] = @ + 1]
  /\ drains' = [drains EXCEPT ![d] = [dr EXCEPT !.pc = "rm_read", !.settled = @ + 1]]
  /\ UNCHANGED <<store, now, ticks>>
  /\ UnchangedNet /\ UnchangedCalls

\* the remote call rejects: caught and logged, the loop goes on
syncOfflineData_rejected(d) ==
  LET dr == drains[d] IN
  /\ dr.pc = "await"
  /\ drains' = [drains EXCEPT ![d] =
                  LoopAt([dr EXCEPT !.failed = @ \cup {dr.i}, !.settled = @ + 1],
                         dr.i + 1, Queue)]
  /\ UNCHANGED <<store, now, ticks, okCount>>
  /\ UnchangedNet /\ UnchangedCalls

\* removeQueuedOperation, getData('offline_queue') resolved: filter
removeQueuedOperation_filter(d) ==
  LET dr == drains[d] IN
  /\ dr.pc = "rm_read"
  /\ drains' = [drains EXCEPT ![d] =
                  [dr EXCEPT !.lq = FilterQueue(Queue, dr.snapshot[dr.i].id),
                             !.pc = "rm_write"]]
  /\ UNCHANGED <<store, now, ticks, okCount>>
  /\ UnchangedNet /\ UnchangedCalls

\* removeQueuedOperation, the store read failed: getData returns null and the
\* filter runs on []
removeQueuedOperation_readFails(d) ==
  LET dr == drains[d] IN
  /\ dr.pc = "rm_read"
  /\ okCount[dr.snapshot[dr.i].uid] < MaxReplays
  /\ drains' = [drains EXCEPT ![d] =
                  [dr EXCEPT !.lq = FilterQueue(<<>>, dr.snapshot[dr.i].id),
                             !.pc = "rm_write", !.missed = TRUE]]
  /\ UNCHANGED <<store, now, ticks, okCount>>
  /\ UnchangedNet /\ UnchangedCalls

\* removeQueuedOperation, the store write failed: caught and logged
removeQueuedOperation_storeFails(d) ==
  LET dr == drains[d] IN
  /\ dr.pc = "rm_write"
  /\ okCount[dr.snapshot[dr.i].uid] < MaxReplays
  /\ drains' = [drains EXCEPT ![d] = LoopAt([dr EXCEPT !.missed = TRUE], dr.i + 1, Queue)]
  /\ UNCHANGED <<store, now, ticks, okCount>>
  /\ UnchangedNet /\ UnchangedCalls

\* removeQueuedOperation, storeData('offline_queue', filteredQueue) resolved
removeQueuedOperation_store(d) ==
  LET dr == drains[d] IN
  /\ dr.pc = "rm_write"
  /\ store' = storeData(store, QueueKey, dr.lq)
  /\ drains' = [Disturb(d) EXCEPT ![d] = LoopAt(dr, dr.i + 1, dr.lq)]
  /\ UNCHANGED <<now, ticks, okCount>>
  /\ UnchangedNet /\ UnchangedCalls

\* -------------------------------------------------- the network monitor
NoEvent == [wasOnline |-> TRUE, isOnline |-> TRUE, listeners |-> <<>>,
            notified |-> <<>>, started |-> 0, seen |-> FALSE, carried |-> Null,
            reaction |-> Null]

\* export const getNetworkStatus = () => isOnline
getNetworkStatus == isOnline

\* variant: an unknown connectivity counts as connected
Connected_optimistic(isConnected) == OrElse(isConnected, TRUE)

\* state.isConnected ?? false
Connected(isConnected) == OrElse(isConnected, FALSE)

\* networkListeners.forEach(listener => listener(isOnline)): the invocations made
forEach(listeners, arg) == [i \in 1..Len(listeners) |-> <<listeners[i], arg>>]

\* `if (wasOnline !== isOnline)`: the listeners are told
notifies(wasOnline, connected) == wasOnline # connected
\* variant: every event that reports a connection starts a pass
startsSync_whenConnected(wasOnline, connected) == connected
\* `if (wasOnline !== isOnline) { ...; if (isOnline) syncOfflineData() }`
startsSync(wasOnline, connected) == wasOnline # connected /\ connected

initializeNetworkMonitoring ==
  /\ monitoring # "active"
  /\ monitoring' = "active"
  /\ UNCHANGED <<isOnline, networkListeners, lastEvent, store, now, ticks, calls, drains>>
  /\ UnchangedHist

\* the function initializeNetworkMonitoring returned is called
teardown ==
  /\ monitoring = "active"
  /\ monitoring' = "stopped"
  /\ UNCHANGED <<isOnline, networkListeners, lastEvent, store, now, ticks, calls, drains>>
  /\ UnchangedHist

\* variant: the platform goes on delivering events after the teardown
Delivers_afterTeardown(subscription) == subscription # "none"

\* the platform delivers events to the callback while it is subscribed
Delivers(subscription) == subscription = "active"

\* The platform's connectivity callback: NetInfo's state.isConnected (true,
\* false or null), navigator.onLine on the web (true or false).  The pass it
\* starts takes a free slot of `slots`.  `reaction` is what a listener does
\* when invoked: nothing (Null), or the listener at position `at` of the
\* array being iterated calls the unsubscribe function of `listener`, which
\* assigns a filtered copy to networkListeners while forEach goes on over
\* the array it started with.
HandleEvent(slots, isConnected, reaction) ==
  LET wasOnline == isOnline
      connected == Connected(isConnected)
      changed == notifies(wasOnline, connected)
      free == {e \in slots : ~Active(drains[e])}
      d == CHOOSE e \in free : \A f \in free : e <= f
  IN /\ Delivers(monitoring)
     /\ startsSync(wasOnline, connected) => free # {}
     /\ reaction # Null =>
          /\ changed
          /\ reaction[1].at \in 1..Len(networkListeners)
          /\ reaction[1].listener \in Range(networkListeners)
     /\ isOnline' = connected
     /\ networkListeners' =
          IF reaction = Null THEN networkListeners
          ELSE SelectSeq(networkListeners, LAMBDA x : x # reaction[1].listener)
     /\ drains' = IF startsSync(wasOnline, connected)
                  THEN [drains EXCEPT ![d] = syncOfflineData(connected)]
                  ELSE drains
     /\ lastEvent' = [wasOnline |-> wasOnline, isOnline |-> connected,
                      listeners |-> networkListeners,
                      notified |-> IF changed THEN forEach(networkListeners, connected)
                                   ELSE <<>>,
                      started |-> Cardinality({e \in DOMAIN drains :
                                                 drains'[e] # drains[e]}),
                      seen |-> TRUE, carried |-> isConnected,
                      reaction |-> reaction]
     /\ lastCreated' = IF connected THEN [t \in DOMAIN lastCreated |-> Null]
                       ELSE lastCreated
     /\ UNCHANGED <<monitoring, store, now, ticks, calls,
                    pushed, written, okCount, fresh, bootUids, restarts>>

\* an event during which no listener touches the registrations
updateOnlineStatus(isConnected) == HandleEvent(DrainSlots, isConnected, Null)

\* an event during which the listener at position `at` unsubscribes l
updateOnlineStatus_unsubscribing(isConnected, at, l) ==
  HandleEvent(DrainSlots, isConnected, Some([at |-> at, listener |-> l]))

addNetworkListener(l) ==
  /\ Len(networkListeners) < MaxListeners
  /\ networkListeners' = Append(networkListeners, l)
  /\ UNCHANGED <<isOnline, monitoring, lastEvent, store, now, ticks, calls, drains>>
  /\ UnchangedHist

\* The function addNetworkListener(l) returned is called:
\* networkListeners.filter(x => x !== l).  Once l is gone the call changes
\* nothing, so only the calls that find l are steps.
unsubscribe(l) ==
  /\ l \in Range(networkListeners)
  /\ networkListeners' = SelectSeq(networkListeners, LAMBDA x : x # l)
  /\ UNCHANGED <<isOnline, monitoring, lastEvent, store, now, ticks, calls, drains>>
  /\ UnchangedHist

\* ---------------------------------------------------- the environment
\* the wall clock advances
Tick(by) ==
  /\ ticks < MaxTicks
  /\ now' = now + by
  /\ ticks' = ticks + 1
  /\ UNCHANGED <<store, calls, drains>>
  /\ UnchangedNet /\ UnchangedHist

\* The process is killed and started again: the module state is initial again,
\* every call and pass in progress is gone, the store keeps its contents.
Restart ==
  /\ restarts < MaxRestarts
  /\ restarts' = restarts + 1
  /\ isOnline' = TRUE
  /\ networkListeners' = <<>>
  /\ monitoring' = "none"
  /\ calls' = [c \in RaceSlots |-> NoCall]
  /\ drains' = [d \in FlapSlots |-> NoDrain]
  /\ lastEvent' = NoEvent
  /\ lastCreated' = [t \in DOMAIN lastCreated |-> Null]
  /\ bootUids' = Uids(Queue)
  /\ UNCHANGED <<store, now, ticks, pushed, written, okCount, fresh>>

\* ------------------------------------------------------ specification
Init ==
  /\ isOnline = TRUE
  /\ networkListeners = <<>>
  /\ monitoring = "none"
  /\ store = [k \in StoreKeys |-> Null]
  /\ now = 0
  /\ ticks = 0
  /\ calls = [c \in RaceSlots |-> NoCall]
  /\ drains = [d \in FlapSlots |-> NoDrain]
  /\ pushed = <<>>
  /\ written = {}
  /\ okCount = [u \in 1..MaxOps |-> 0]
  /\ lastEvent = NoEvent
  /\ lastCreated = [t \in {"projects", "milestones"} |-> Null]
  /\ fresh = [k \in CacheNames |-> Null]
  /\ bootUids = {}
  /\ restarts = 0

\* what the storage API is called with
TTLs == {1, DefaultTTL}
QueueInputs ==
  {[type |-> "create", table |-> "projects", data |-> [name |-> "a"], id |-> Null],
   [type |-> "update", table |-> "projects", data |-> [name |-> "c"], id |-> <<"p1">>],
   [type |-> "delete", table |-> "milestones", data |-> [title |-> "m"], id |-> <<"m1">>]}

DrainStep(d) ==
  \/ syncOfflineData_call(d)
  \/ syncOfflineData_read(d)
  \/ syncOfflineData_resolved(d)
  \/ syncOfflineData_rejected(d)
  \/ removeQueuedOperation_filter(d)
  \/ removeQueuedOperation_store(d)

Monitor ==
  \/ initializeNetworkMonitoring
  \/ \E isConnected \in {Null, Some(TRUE), Some(FALSE)} : updateOnlineStatus(isConnected)

\* Spec: the sync core.  Facade writes, online and offline, interleaved at
\* every await with drain passes and connectivity events; the clock stands
\* still, so no cache entry expires.
SyncCall(c) ==
  \/ \E projectData \in ProjectInputs : createProject(c, projectData)
  \/ \E projectId \in RealIds, updates \in ProjectUpdates : updateProject(c, projectId, updates)
  \/ \E milestoneData \in MilestoneInputs : createMilestone(c, milestoneData)

SyncStep(c) ==
  \/ remoteResolves(c)
  \/ remoteRejects(c)
  \/ queueOperation_push(c)
  \/ queueOperation_store(c)
  \/ getCachedData_read(c)
  \/ cacheData_store(c)
  \/ Return(c)

Next ==
  \/ \E c \in CallSlots : SyncCall(c) \/ SyncStep(c)
  \/ \E d \in DrainSlots : DrainStep(d)
  \/ Monitor

Spec == Init /\ [][Next]_vars

\* SpecRead: facade reads against a cache that is also written directly, with
\* the clock advancing.  Nothing is queued, so a pass ends on reading the queue.
ReadCall(c) ==
  \/ getProjects(c)
  \/ \E projectId \in RealIds : getMilestones(c, projectId)
  \/ \E data \in RemoteProjects : cacheData(c, <<"projects">>, data, DefaultTTL)

ReadStep(c) ==
  \/ remoteResolves(c)
  \/ remoteRejects(c)
  \/ getCachedData_read(c)
  \/ getCachedData_evict(c)
  \/ cacheData_store(c)
  \/ Return(c)

NextRead ==
  \/ \E c \in CallSlots : ReadCall(c) \/ ReadStep(c)
  \/ \E d \in DrainSlots : syncOfflineData_read(d)
  \/ Monitor
  \/ Tick(DefaultTTL)

SpecRead == Init /\ [][NextRead]_vars

\* SpecOptimistic: offline creates followed by reads.  A call starts when no
\* pass is in progress and a pass moves when no call is: a pass touches only
\* 'offline_queue', which no read consults.
Quiet == \A d \in DrainSlots : ~Active(drains[d])
CallsIdle == \A c \in CallSlots : Idle(c)

OptimisticCall(c) ==
  \/ \E projectData \in ProjectInputs : createProject(c, projectData)
  \/ \E milestoneData \in MilestoneInputs : createMilestone(c, milestoneData)
  \/ getProjects(c)
  \/ \E projectId \in {Null} \cup RealIds : getMilestones(c, projectId)

NextOptimistic ==
  \/ \E c \in CallSlots : (Quiet /\ OptimisticCall(c)) \/ SyncStep(c)
  \/ \E d \in DrainSlots : CallsIdle /\ DrainStep(d)
  \/ CallsIdle /\ Monitor

SpecOptimistic == Init /\ [][NextOptimistic]_vars

\* SpecSeq: facade writes and drain passes one at a time, with no enqueue
\* while a pass is in progress, across process restarts.
NextSeq ==
  \/ \E c \in CallSlots : (Quiet /\ SyncCall(c)) \/ SyncStep(c)
  \/ \E d \in DrainSlots : CallsIdle /\ DrainStep(d)
  \/ CallsIdle /\ Monitor
  \/ Restart

SpecSeq == Init /\ [][NextSeq]_vars

\* SpecCache: the cache manager alone, under a clock that advances by a
\* millisecond or by the default TTL.
CacheCall(c) ==
  \/ \E data \in RemoteProjects, ttl \in TTLs : cacheData(c, <<"projects">>, data, ttl)
  \/ getCachedData(c, <<"projects">>)

CacheStep(c) ==
  \/ getCachedData_read(c)
  \/ getCachedData_evict(c)
  \/ cacheData_store(c)
  \/ Return(c)

NextCache ==
  \/ \E c \in CallSlots : CacheCall(c) \/ CacheStep(c)
  \/ \E by \in Advances : Tick(by)

SpecCache == Init /\ [][NextCache]_vars

\* SpecQueue: the mutation queue alone, one call after the other, across
\* process restarts.
QueueCall(c) ==
  \/ \E operation \in QueueInputs : queueOperation(c, operation)
  \/ getQueuedOperations(c)

QueueStep(c) ==
  \/ queueOperation_push(c)
  \/ queueOperation_store(c)
  \/ getQueuedOperations_read(c)
  \/ Return(c)

NextQueue ==
  \/ \E c \in CallSlots : QueueCall(c) \/ QueueStep(c)
  \/ Tick(1)
  \/ Restart

SpecQueue == Init /\ [][NextQueue]_vars

\* SpecNet: the network monitor with its listeners; an offline update gives
\* the passes it starts something to replay.
NetCall(c) ==
  \E projectId \in RealIds, updates \in ProjectUpdates : updateProject(c, projectId, updates)

NextNet ==
  \/ \E c \in CallSlots : (Quiet /\ NetCall(c)) \/ SyncStep(c)
  \/ \E d \in DrainSlots : CallsIdle /\ DrainStep(d)
  \/ Monitor
  \/ teardown
  \/ \E l \in ListenerIds : addNetworkListener(l) \/ unsubscribe(l)

SpecNet == Init /\ [][NextNet]_vars

\* SpecStale: offline project creates and reads while the clock advances by a
\* millisecond or by the default TTL; calls and passes one at a time.
StaleCall(c) ==
  \/ \E projectData \in ProjectInputs : createProject(c, projectData)
  \/ getProjects(c)

StaleStep(c) ==
  \/ SyncStep(c)
  \/ getCachedData_evict(c)

NextStale ==
  \/ \E c \in CallSlots : (Quiet /\ StaleCall(c)) \/ StaleStep(c)
  \/ \E d \in DrainSlots : CallsIdle /\ DrainStep(d)
  \/ CallsIdle /\ Monitor
  \/ \E by \in Advances : CallsIdle /\ Tick(by)

SpecStale == Init /\ [][NextStale]_vars

\* SpecFacade: every facade function, online and offline, one call at a time
\* and no call while a pass is in progress; the clock stands still.
FacadeCall(c) ==
  \/ SyncCall(c)
  \/ getProjects(c)
  \/ \E projectId \in {Null} \cup RealIds : getMilestones(c, projectId)

NextFacade ==
  \/ \E c \in CallSlots : (Quiet /\ FacadeCall(c)) \/ SyncStep(c)
  \/ \E d \in DrainSlots : CallsIdle /\ DrainStep(d)
  \/ CallsIdle /\ Monitor

SpecFacade == Init /\ [][NextFacade]_vars

\* SpecDispatch: operations of any type put on the queue through the storage
\* API, one call at a time, then replayed by explicit passes.
NextDispatch ==
  \/ \E c \in CallSlots :
       \/ \E operation \in QueueInputs : Quiet /\ queueOperation(c, operation)
       \/ queueOperation_push(c)
       \/ queueOperation_store(c)
       \/ Return(c)
  \/ \E d \in DrainSlots : CallsIdle /\ DrainStep(d)

SpecDispatch == Init /\ [][NextDispatch]_vars

\* SpecStoreFail: the mutation queue with a store whose reads and writes may
\* fail; enqueues through the storage API and explicit passes, one at a time.
NextStoreFail ==
  \/ \E c \in CallSlots :
       \/ \E operation \in QueueInputs : Quiet /\ queueOperation(c, operation)
       \/ queueOperation_push(c)
       \/ queueOperation_readFails(c)
       \/ queueOperation_store(c)
       \/ queueOperation_storeFails(c)
       \/ Return(c)
  \/ \E d \in DrainSlots :
       /\ CallsIdle
       /\ \/ DrainStep(d)
          \/ removeQueuedOperation_readFails(d)
          \/ removeQueuedOperation_storeFails(d)

SpecStoreFail == Init /\ [][NextStoreFail]_vars

\* SpecRace: two callers of queueOperation, each calling once, interleaved at
\* the store read and the store write.
NextRace ==
  \/ \E c \in RaceSlots :
       \/ \E operation \in QueueInputs : queueOperation(c, operation)
       \/ queueOperation_push(c)
       \/ queueOperation_store(c)
  \/ Tick(1)

SpecRace == Init /\ [][NextRace]_vars

\* SpecCrash: the project functions of the facade, one call at a time and no
\* call while a pass is in progress, with the process killed and restarted
\* at any point.
CrashCall(c) ==
  \/ \E projectData \in ProjectInputs : createProject(c, projectData)
  \/ \E projectId \in RealIds, updates \in ProjectUpdates : updateProject(c, projectId, updates)
  \/ getProjects(c)

NextCrash ==
  \/ \E c \in CallSlots : (Quiet /\ CrashCall(c)) \/ SyncStep(c)
  \/ \E d \in DrainSlots : CallsIdle /\ DrainStep(d)
  \/ CallsIdle /\ Monitor
  \/ Restart

SpecCrash == Init /\ [][NextCrash]_vars

\* SpecLive: Spec with every await of a pass in progress ending: a store
\* access returns, a remote call returns or fails.
PassStep(d) ==
  \/ syncOfflineData_read(d)
  \/ syncOfflineData_resolved(d)
  \/ syncOfflineData_rejected(d)
  \/ removeQueuedOperation_filter(d)
  \/ removeQueuedOperation_store(d)

SpecLive == Spec /\ \A d \in DrainSlots : WF_vars(PassStep(d))

\* SpecListen: the network monitor and its listeners, the listeners free to
\* unsubscribe a listener while they are being notified.
NextListen ==
  \/ Monitor
  \/ teardown
  \/ \E l \in ListenerIds : addNetworkListener(l) \/ unsubscribe(l)
  \/ \E isConnected \in {Some(TRUE), Some(FALSE)}, l \in ListenerIds, at \in 1..MaxListeners :
       updateOnlineStatus_unsubscribing(isConnected, at, l)
  \/ \E d \in DrainSlots : syncOfflineData_read(d)

SpecListen == Init /\ [][NextListen]_vars

\* SpecFlap: connectivity flaps while a pass awaits.  Every offline -> online
\* event starts a pass of its own, whether or not an earlier pass is still in
\* progress; offline updates fill the queue.
updateOnlineStatus_flapping(isConnected) == HandleEvent(FlapSlots, isConnected, Null)

NextFlap ==
  \/ \E c \in CallSlots :
       \/ \E projectId \in RealIds, updates \in ProjectUpdates :
            ~isOnline /\ updateProject(c, projectId, updates)
       \/ queueOperation_push(c)
       \/ queueOperation_store(c)
       \/ getCachedData_read(c)
       \/ cacheData_store(c)
       \/ Return(c)
  \/ \E d \in FlapSlots : PassStep(d)
  \/ initializeNetworkMonitoring
  \/ \E isConnected \in {Some(TRUE), Some(FALSE)} : updateOnlineStatus_flapping(isConnected)

SpecFlap == Init /\ [][NextFlap]_vars

\* SpecBoot: a process restart with operations queued.  Before the restart
\* the device goes offline and online and offline updates fill the queue;
\* after it the device is connected and stays so: the platform reports
\* nothing but "connected", and every remote call of a pass resolves.  What
\* is enabled after the restart eventually happens.
Booted == restarts > 0

BeforeBoot ==
  \/ \E c \in CallSlots :
       \/ \E projectId \in RealIds, updates \in ProjectUpdates :
            ~isOnline /\ updateProject(c, projectId, updates)
       \/ queueOperation_push(c)
       \/ queueOperation_store(c)
       \/ getCachedData_read(c)
       \/ cacheData_store(c)
       \/ Return(c)
  \/ \E isConnected \in {Some(TRUE), Some(FALSE)} : updateOnlineStatus(isConnected)
  \/ \E d \in DrainSlots : syncOfflineData_rejected(d)

ConnectedEvent == Booted /\ updateOnlineStatus(Some(TRUE))

BootPass(d) ==
  \/ syncOfflineData_read(d)
  \/ syncOfflineData_resolved(d)
  \/ removeQueuedOperation_filter(d)
  \/ removeQueuedOperation_store(d)

NextBoot ==
  \/ ~Booted /\ BeforeBoot
  \/ Restart
  \/ initializeNetworkMonitoring
  \/ ConnectedEvent
  \/ \E d \in DrainSlots : BootPass(d)

SpecBoot ==
  /\ Init /\ [][NextBoot]_vars
  /\ WF_vars(Booted /\ initializeNetworkMonitoring)
  /\ WF_vars(ConnectedEvent)
  /\ \A d \in DrainSlots : WF_vars(BootPass(d))

\* SpecTemp: offline creates followed by offline updates of the records the
\* creates returned, then passes; calls and passes one at a time.
ReturnedIds == {lastCreated[t][1].id : t \in {t \in DOMAIN lastCreated : lastCreated[t] # Null}}

NextTemp ==
  \/ \E c \in CallSlots :
       \/ \E projectData \in ProjectInputs : Quiet /\ ~isOnline /\ createProject(c, projectData)
       \/ \E projectId \in ReturnedIds, updates \in ProjectUpdates :
            Quiet /\ ~isOnline /\ updateProject(c, projectId, updates)
       \/ queueOperation_push(c)
       \/ queueOperation_store(c)
       \/ getCachedData_read(c)
       \/ cacheData_store(c)
       \/ Return(c)
  \/ \E d \in DrainSlots : CallsIdle /\ DrainStep(d)
  \/ CallsIdle /\ Monitor

SpecTemp == Init /\ [][NextTemp]_vars

\* SpecStore: the storage API on the shared store.  Cache calls, under keys
\* that include one spelling the queue's store key, queue calls, and
\* explicit passes that remove what they replayed, one at a time; the clock
\* advances between them, so cache entries expire and are evicted.
StoreCacheKeys == {<<"projects">>, <<"offline_queue">>}

StoreCall(c) ==
  \/ \E key \in StoreCacheKeys, data \in RemoteProjects : cacheData(c, key, data, 1)
  \/ \E key \in StoreCacheKeys : getCachedData(c, key)
  \/ \E operation \in QueueInputs : queueOperation(c, operation)
  \/ clearQueuedOperations(c)

StoreStep(c) ==
  \/ cacheData_store(c)
  \/ getCachedData_read(c)
  \/ getCachedData_evict(c)
  \/ queueOperation_push(c)
  \/ queueOperation_store(c)
  \/ clearQueuedOperations_remove(c)
  \/ Return(c)

NextStore ==
  \/ \E c \in CallSlots : (Quiet /\ StoreCall(c)) \/ StoreStep(c)
  \/ \E d \in DrainSlots : CallsIdle /\ (syncOfflineData_call(d) \/ PassStep(d))
  \/ CallsIdle /\ Quiet /\ Tick(DefaultTTL)

SpecStore == Init /\ [][NextStore]_vars

\* ------------------------------------------------------------ properties

\* C1: no offline write is lost.  Every operation whose enqueue reached the
\* persisted 'offline_queue' list is still in that list unless a remote call
\* issued for that very operation has succeeded.
NoOfflineWriteLost ==
  \A u \in written : u \in Uids(Queue) \/ okCount[u] > 0

\* C2: when a drain pass that ran alone has ended, the persisted queue is
\* exactly the operations of the pass whose remote call failed, in their
\* original order, and the pass issued one remote call for every operation
\* of the queue it read.
DrainLeavesExactlyFailures ==
  \A d \in DrainSlots :
    LET dr == drains[d] IN
    (dr.pc = "done" /\ dr.ran /\ dr.alone) =>
      /\ dr.endQueue = SelectIdx(dr.snapshot, dr.failed, 0)
      /\ dr.issued = [i \in 1..Len(dr.snapshot) |-> dr.snapshot[i].uid]

\* C3: within a drain pass the remote calls are issued in enqueue order, one
\* at a time.  The list the pass reads is in enqueue order, the calls issued
\* so far follow it, and a call is issued only when every earlier one of the
\* pass has settled.
ReplayInEnqueueOrder ==
  \A d \in DrainSlots :
    LET dr == drains[d] IN
    /\ \A i, j \in 1..Len(dr.snapshot) : i < j => dr.snapshot[i].uid < dr.snapshot[j].uid
    /\ \A i, j \in 1..Len(dr.issued) : i < j => dr.issued[i] < dr.issued[j]
    /\ Len(dr.issued) = dr.settled + (IF dr.pc = "await" THEN 1 ELSE 0)

\* a pass has replayed a create and then an update, both succeeding
ReplayedCreateThenUpdate ==
  \E d \in DrainSlots :
    LET dr == drains[d] IN
    /\ dr.pc = "done" /\ dr.issued = <<1, 2>> /\ dr.settled = 2 /\ dr.failed = {}
    /\ dr.snapshot[1].type = "create" /\ dr.snapshot[2].type = "update"

\* C4: queue durability round trip.  getQueuedOperations returns exactly the
\* operations whose enqueue reached the store, in enqueue order, each with
\* the type, table, data and id it was enqueued with; a process restart in
\* between changes nothing.
QueueRoundTrip ==
  \A c \in CallSlots :
    LET call == calls[c] IN
    (call.kind = "getQueuedOperations" /\ call.pc = "done") =>
      LET res == call.result[1] IN
      /\ Uids(res) = written
      /\ \A i, j \in 1..Len(res) : i < j => res[i].uid < res[j].uid
      /\ \A i \in 1..Len(res) :
           LET op == pushed[res[i].uid] IN
           /\ res[i].type = op.type
           /\ res[i].table = op.table
           /\ res[i].data = op.data
           /\ op.id # Null => res[i].id = op.id

\* two operations were enqueued, the process restarted, and the list was read
ListedAfterRestart ==
  \E c \in CallSlots :
    /\ calls[c].kind = "getQueuedOperations" /\ calls[c].pc = "done"
    /\ restarts = 1 /\ bootUids = {1, 2}
    /\ Len(calls[c].result[1]) = 2

\* C5: cache TTL.  getCachedData finding an entry written at time t with ttl
\* d returns its data and leaves the entry in the store when now - t <= d;
\* when now - t > d it returns null and the entry is gone from the store
\* when the call returns.
CacheTTL ==
  \A c \in CallSlots :
    LET call == calls[c] IN
    (call.kind = "getCachedData" /\ call.pc = "done" /\ call.item # Null) =>
      LET item == call.item[1]
          k == CacheKey(call.key)
      IN IF call.readAt - item.timestamp <= item.ttl
         THEN call.result = Some(item.data) /\ store[k] = JSON_stringify(item)
         ELSE call.result = Null /\ store[k] = Null

\* an entry read when its age is exactly its ttl, and returned
ReadAtExactlyTTL ==
  \E c \in CallSlots :
    LET call == calls[c] IN
    /\ call.kind = "getCachedData" /\ call.pc = "done" /\ call.item # Null
    /\ call.readAt - call.item[1].timestamp = call.item[1].ttl
    /\ call.item[1].data # <<>>
    /\ call.result = Some(call.item[1].data)

\* C6: optimistic create visibility.  A create made offline returns a record
\* whose id starts with 'temp_', and a following get for that entity, still
\* offline, with no project filter or with the record's project as filter,
\* returns a list containing that record.
OptimisticCreateVisible ==
  \A c \in CallSlots :
    LET call == calls[c] IN
    /\ (call.kind \in CreateKinds /\ ~call.online /\ call.pc = "done") =>
         (call.result # Null /\ call.result[1].id[1] = "temp")
    /\ (/\ call.kind \in GetKinds /\ ~call.online /\ call.pc = "done"
        /\ lastCreated[TableOf(call)] # Null
        /\ \/ call.projectId = Null
           \/ call.projectId = lastCreated[TableOf(call)][1].project_id) =>
         lastCreated[TableOf(call)][1] \in Range(call.result[1])

\* C7: online / offline read switch.  A get made online whose remote read
\* resolves with R returns R and leaves R as the cache entry of its key; a
\* get made offline that finds the entry of an earlier online get, within
\* the TTL and not written since, returns that R and issues no remote call.
ReadSwitch ==
  \A c \in CallSlots :
    LET call == calls[c]
        k == CacheKey(call.key)
    IN /\ (call.kind \in GetKinds /\ call.online /\ ~call.failed /\ call.pc = "done") =>
            /\ call.answer # Null /\ call.result = call.answer
            /\ store[k] # Null /\ JSON_parse(store[k]).data = call.answer[1]
       /\ (/\ call.kind \in GetKinds /\ ~call.online /\ call.pc = "done"
           /\ call.sawFresh # Null
           /\ call.readAt - call.sawFresh[1].at <= DefaultTTL) =>
            /\ call.result = Some(call.sawFresh[1].data)
            /\ call.remote = 0

\* an offline get has returned the non-empty list an online get cached
OfflineReadServedFromCache ==
  \E c \in CallSlots :
    LET call == calls[c] IN
    /\ call.kind \in GetKinds /\ ~call.online /\ call.pc = "done"
    /\ call.sawFresh # Null /\ call.sawFresh[1].data # <<>>
    /\ call.result = Some(call.sawFresh[1].data)
    /\ call.remote = 0

\* C8: read fallback.  A get made online whose remote read fails does not
\* throw; it returns the valid cached list of its key, the empty list when
\* there is none, and does not write the cache entry.
ReadFallback ==
  \A c \in CallSlots :
    LET call == calls[c]
        k == CacheKey(call.key)
    IN (call.kind \in GetKinds /\ call.online /\ call.failed /\ call.pc = "done") =>
         /\ ~call.threw
         /\ ~call.wrote
         /\ IF call.item # Null /\ call.readAt - call.item[1].timestamp <= call.item[1].ttl
            THEN /\ call.result = Some(call.item[1].data)
                 /\ store[k] = JSON_stringify(call.item[1])
            ELSE /\ call.result = Some(<<>>)
                 /\ store[k] = Null

\* a get whose remote read failed has returned a non-empty cached list
FellBackToCachedList ==
  \E c \in CallSlots :
    LET call == calls[c] IN
    /\ call.kind \in GetKinds /\ call.online /\ call.failed /\ call.pc = "done"
    /\ call.item # Null
    /\ call.result # Null /\ call.result[1] # <<>>

\* C9: no facade call rejects, and a create or update made online whose
\* remote call failed has its mutation in the persisted queue when it returns.
NothingThrows ==
  \A c \in CallSlots :
    LET call == calls[c] IN
    /\ ~call.threw
    /\ (call.kind \in WriteKinds /\ call.online /\ call.failed /\ call.pc = "done") =>
         \E i \in 1..Len(Queue) :
           /\ Queue[i].type = call.op[1].type
           /\ Queue[i].table = call.op[1].table
           /\ Queue[i].data = call.op[1].data

\* C10: a connectivity event whose state differs from the previous one
\* invokes every registered listener once with the new state, in order, and
\* starts a drain pass exactly when the new state is online; an event whose
\* state equals the previous one invokes no listener and starts no pass.
EventHandling ==
  lastEvent.seen =>
    IF lastEvent.wasOnline # lastEvent.isOnline
    THEN /\ lastEvent.notified =
              [i \in 1..Len(lastEvent.listeners) |->
                 <<lastEvent.listeners[i], lastEvent.isOnline>>]
         /\ lastEvent.started = (IF lastEvent.isOnline THEN 1 ELSE 0)
    ELSE /\ lastEvent.notified = <<>>
         /\ lastEvent.started = 0

\* an event took the monitor online with two listeners registered
WentOnlineWithListeners ==
  /\ lastEvent.seen /\ ~lastEvent.wasOnline /\ lastEvent.isOnline
  /\ Len(lastEvent.listeners) = 2 /\ Len(lastEvent.notified) = 2
  /\ lastEvent.started = 1

\* the persisted queue holds a create for `table` with the data of record rec
CreateQueuedFor(table, rec) ==
  \E i \in 1..Len(Queue) :
    /\ Queue[i].type = "create" /\ Queue[i].table = table
    /\ \A f \in DOMAIN Queue[i].data : rec[f] = Queue[i].data[f]

\* C11: optimistic state stays available.  While the device has not gone
\* online again, an offline get returns the record the last offline create
\* of its table returned for as long as that record's create is still in
\* the persisted queue, however much time has passed.
OptimisticStateStays ==
  \A c \in CallSlots :
    LET call == calls[c] IN
    (/\ call.kind = "getProjects" /\ ~call.online /\ call.pc = "done"
     /\ lastCreated["projects"] # Null
     /\ CreateQueuedFor("projects", lastCreated["projects"][1])) =>
       lastCreated["projects"][1] \in Range(call.result[1])

\* the list getCachedData gave the call: the entry's data when valid, else []
CachedListOf(call) ==
  IF call.item # Null /\ call.readAt - call.item[1].timestamp <= call.item[1].ttl
  THEN call.item[1].data
  ELSE <<>>

\* C12: offline update.  updateProject(id, updates) made offline issues no
\* remote call; its queue write appends exactly one update operation with
\* that id and data = updates; its cache write stores the cached project
\* list with the record of that id carrying the merged updates and a
\* refreshed updated_at, every other record, the length and the order
\* unchanged.
OfflineUpdateEffect ==
  [][\A c \in CallSlots :
       LET call == calls[c]
           after == calls'[c]
           k == CacheKey(<<"projects">>)
       IN (call.kind = "updateProject" /\ ~call.online) =>
            /\ after.remote = 0
            /\ (call.pc = "q_write" /\ after.pc = "c_read") =>
                 LET last == Queue'[Len(Queue')] IN
                 /\ Len(Queue') = Len(Queue) + 1
                 /\ SubSeq(Queue', 1, Len(Queue)) = Queue
                 /\ last.type = "update" /\ last.table = "projects"
                 /\ last.id = call.projectId /\ last.data = call.op[1].data
            /\ (call.pc = "c_write" /\ after.pc = "done") =>
                 LET before == CachedListOf(call)
                     list == JSON_parse(store'[k]).data
                     updates == call.op[1].data
                 IN /\ Len(list) = Len(before)
                    /\ \A i \in 1..Len(before) :
                         IF before[i].id = call.projectId
                         THEN /\ list[i].id = before[i].id
                              /\ list[i].updated_at = now
                              /\ \A f \in DOMAIN updates : list[i][f] = updates[f]
                              /\ \A f \in DOMAIN before[i] \ (DOMAIN updates \cup {"updated_at"}) :
                                   list[i][f] = before[i][f]
                         ELSE list[i] = before[i]]_vars

\* an offline update has rewritten its record in a cached list of two
UpdatedOneOfTwo ==
  \E c \in CallSlots :
    LET call == calls[c] IN
    /\ call.kind = "updateProject" /\ ~call.online /\ call.pc = "done"
    /\ Len(CachedListOf(call)) = 2
    /\ call.result # Null /\ call.result[1].name = "c"
    /\ Len(Queue) = 2 /\ Queue[2].type = "update"

\* C13: online write.  A create or update made online issues exactly one
\* remote call and returns what the remote answered; no step of the call
\* changes the persisted queue or any cache entry.
OnlineWriteEffect ==
  [][\A c \in CallSlots :
       LET call == calls[c]
           after == calls'[c]
       IN (/\ after # call
           /\ \/ call.kind \in WriteKinds /\ call.online
              \/ after.kind \in WriteKinds /\ after.online) =>
            /\ store' = store
            /\ (call.pc = "remote" /\ after.pc = "done" /\ ~after.failed) =>
                 /\ after.remote = 1
                 /\ after.answer # Null
                 /\ after.result = after.answer]_vars

\* an online create has returned the remote row while the queue and the
\* projects cache hold data
OnlineCreateReturned ==
  \E c \in CallSlots :
    LET call == calls[c] IN
    /\ call.kind = "createProject" /\ call.online /\ call.pc = "done"
    /\ call.result # Null /\ call.result = call.answer /\ call.remote = 1
    /\ Queue # <<>>
    /\ store[CacheKey(<<"projects">>)] # Null

\* C14: an operation whose remote call failed during a drain pass that ran
\* alone is in the persisted queue, unchanged, when the pass ends, whatever
\* else the queue holds.
FailedOperationKept ==
  \A d \in DrainSlots :
    LET dr == drains[d] IN
    (dr.pc = "done" /\ dr.ran /\ dr.alone) =>
      \A i \in dr.failed : dr.snapshot[i] \in Range(dr.endQueue)

\* C15: dispatch is total.  A pass that is removing an operation from the
\* queue has issued the remote-service call of that operation's table and
\* type, and that call has succeeded.
DispatchTotal ==
  \A d \in DrainSlots :
    LET dr == drains[d] IN
    dr.pc \in {"rm_read", "rm_write"} =>
      /\ processQueuedOperation(dr.snapshot[dr.i]) # "none"
      /\ dr.issued # <<>>
      /\ dr.issued[Len(dr.issued)] = dr.snapshot[dr.i].uid
      /\ okCount[dr.snapshot[dr.i].uid] > 0

\* sub is what is left of q when some of its elements are taken out
RECURSIVE IsSubSeq(_, _)
IsSubSeq(sub, q) ==
  IF sub = <<>> THEN TRUE
  ELSE IF q = <<>> THEN FALSE
  ELSE IF Head(sub) = Head(q) THEN IsSubSeq(Tail(sub), Tail(q))
  ELSE IsSubSeq(sub, Tail(q))

\* C16: a store failure is a no-op for the queue.  When a store access of
\* queueOperation or of removeQueuedOperation has failed, the queue write
\* the call then makes keeps every operation that was in the persisted
\* queue (but the one being removed), in the same order.
StoreFailureKeepsQueue ==
  [][/\ \A c \in CallSlots :
          (calls[c].pc = "q_write" /\ calls[c].missed /\ calls'[c].pc # "q_write") =>
            IsSubSeq(Queue, Queue')
     /\ \A d \in DrainSlots :
          (drains[d].pc = "rm_write" /\ drains[d].missed /\ drains'[d].pc # "rm_write") =>
            IsSubSeq(FilterQueue(Queue, drains[d].snapshot[drains[d].i].id), Queue')]_vars

\* C17: two queueOperation calls.  When neither call had the queue written
\* between its read and its write (the calls ran one after the other) every
\* operation written is in the persisted queue; interleaved, the queue may
\* hold fewer, but always the operation written last, and only operations
\* written, in push order.
EnqueueRace ==
  /\ (\A c \in RaceSlots : ~calls[c].stale) => Uids(Queue) = written
  /\ written # {} => Queue # <<>>
  /\ Uids(Queue) \subseteq written
  /\ \A i, j \in 1..Len(Queue) : i < j => Queue[i].uid < Queue[j].uid

\* both calls have returned and one of the two operations is not in the queue
OneEnqueueLost ==
  /\ \A c \in RaceSlots : calls[c].kind = "queueOperation" /\ calls[c].pc = "done"
  /\ written = {1, 2}
  /\ Len(Queue) = 1

\* C18: enqueue during a drain pass.  At the step that ends a pass, every
\* operation whose enqueue has reached the store and that the pass did not
\* read at its start is in the persisted queue, unless a replay of it has
\* succeeded.
EnqueuedDuringDrainKept ==
  [][\A d \in DrainSlots :
       (Active(drains[d]) /\ drains'[d].pc = "done" /\ drains'[d].ran) =>
         \A u \in written' \ Uids(drains'[d].snapshot) :
           u \in Uids(Queue') \/ okCount'[u] > 0]_vars

\* the records of the cached list under cache name k ([] when there is none)
CachedRecords(k) ==
  IF store[CacheKey(k)] = Null THEN {} ELSE Range(JSON_parse(store[CacheKey(k)]).data)

\* the cached records an offline create put there / an offline update rewrote
CachedCreates(k) == {r \in CachedRecords(k) : r.id[1] = "temp"}
CachedUpdates(k) == {r \in CachedRecords(k) : r.id[1] # "temp" /\ "updated_at" \in DOMAIN r}

DrainRunsToCompletion ==
  /\ [](\A d \in DrainSlots :
          LET dr == drains[d] IN
          /\ Len(dr.issued) <= Len(dr.snapshot)
          /\ \A i \in 1..Len(dr.issued) : dr.issued[i] = dr.snapshot[i].uid
          /\ (dr.pc = "done" /\ dr.ran) => Len(dr.issued) = Len(dr.snapshot))
  /\ [][\A d \in DrainSlots :
          (Active(drains[d]) /\ drains[d].pc # "read" /\ drains'[d].pc # "idle") =>
            drains'[d].snapshot = drains[d].snapshot]_vars
  /\ \A d \in DrainSlots : Active(drains[d]) ~> (drains[d].pc = "done")

\* a pass over two operations has ended offline, its first remote call
\* having failed
DrainedThroughFailureOffline ==
  \E d \in DrainSlots :
    LET dr == drains[d] IN
    /\ dr.pc = "done" /\ dr.ran /\ ~isOnline
    /\ Len(dr.snapshot) = 2 /\ dr.issued = <<1, 2>> /\ dr.failed = {1}

\* C21: getNetworkStatus returns online before any platform event has been
\* received, and afterwards the connectivity the most recent event carried,
\* an unknown (null) connectivity counting as offline.
StatusIsLastEvent ==
  getNetworkStatus = (IF lastEvent.seen THEN lastEvent.carried = Some(TRUE) ELSE TRUE)

\* the last event carried a null connectivity while the state was online
UnknownConnectivitySeen ==
  /\ lastEvent.seen /\ lastEvent.carried = Null /\ lastEvent.wasOnline
  /\ ~getNetworkStatus

\* the number of registrations of l in the list
Registrations(listeners, l) == Cardinality({i \in 1..Len(listeners) : listeners[i] = l})

\* C22: listeners form an ordered list without deduplication.  A transition
\* invokes the registered listeners in registration order, a callback
\* registered k times k times; no listener is invoked after its unsubscribe
\* function has run; unsubscribing a listener leaves the registrations of
\* every other listener in place, in order.
ListenersOrderedNoDedup ==
  /\ [](lastEvent.seen =>
          /\ lastEvent.wasOnline # lastEvent.isOnline =>
               /\ Len(lastEvent.notified) = Len(lastEvent.listeners)
               /\ \A i \in 1..Len(lastEvent.listeners) :
                    lastEvent.notified[i][1] = lastEvent.listeners[i]
          /\ lastEvent.reaction # Null =>
               \A j \in 1..Len(lastEvent.notified) :
                 j > lastEvent.reaction[1].at =>
                   lastEvent.notified[j][1] # lastEvent.reaction[1].listener)
  /\ [][\A l \in ListenerIds :
          Registrations(networkListeners', l) < Registrations(networkListeners, l) =>
            networkListeners' = SelectSeq(networkListeners, LAMBDA x : x # l)]_vars

\* C23: the network state changes only through platform events.  A step
\* that changes isOnline is an event delivered to the subscribed monitor and
\* is no step of a facade, cache, queue or drain operation; once the
\* teardown function has been called, and until monitoring is initialized
\* again, isOnline does not change, no listener is invoked and the monitor
\* starts no pass.
StateChangesOnlyByEvents ==
  [][/\ isOnline' # isOnline =>
          /\ monitoring = "active"
          /\ lastEvent'.seen /\ lastEvent'.wasOnline = isOnline
          /\ lastEvent'.isOnline = isOnline'
          /\ calls' = calls /\ store' = store
     /\ (monitoring = "stopped" /\ monitoring' = "stopped") =>
          /\ isOnline' = isOnline
          /\ lastEvent' = lastEvent
          /\ \A d \in DrainSlots :
               (~Active(drains[d]) /\ Active(drains'[d])) => isOnline]_vars

\* monitoring has been torn down while offline, with a listener registered
\* and an offline write made
TornDownOffline ==
  /\ monitoring = "stopped" /\ lastEvent.seen /\ ~isOnline
  /\ networkListeners # <<>>
  /\ written # {}

\* C24: at-most-once replay.  Over any interleaving of passes, two passes
\* that overlap because connectivity went online, offline and online again
\* during an awaited remote call included, no queued operation has its
\* remote call succeed more than once.
ReplayedAtMostOnce == \A u \in DOMAIN okCount : okCount[u] <= 1

\* C25: eventual drain after a restart.  When the process has restarted
\* with operations in the persisted queue, and the device is and stays
\* connected with every remote call resolving, the queue eventually becomes
\* empty.
DrainedAfterRestart == (Booted /\ Queue # <<>>) ~> (Queue = <<>>)

\* C26: an offline update addressed to the id an offline create returned
\* means the entity of the queued Create.  The record an offline create
\* returns carries the id stored on the Create it queued, and no pass sends
\* the remote service an Update whose id is a 'temp_' id.
TempIdNamesQueuedCreate ==
  /\ \A c \in CallSlots :
       LET call == calls[c] IN
       (call.kind \in CreateKinds /\ ~call.online /\ call.pc = "done" /\ call.wrote) =>
         \E i \in 1..Len(call.lq) :
           /\ call.lq[i].uid = Len(pushed)
           /\ call.lq[i].id = call.rec[1].id
  /\ \A d \in DrainSlots :
       LET dr == drains[d] IN
       dr.pc = "await" =>
         ~(dr.snapshot[dr.i].type = "update" /\ dr.snapshot[dr.i].id[1] = "temp")

CachedIdsDistinct ==
  \A k \in CacheNames :
    store[CacheKey(k)] # Null =>
      LET list == JSON_parse(store[CacheKey(k)]).data IN
      \A i, j \in 1..Len(list) : i # j => list[i].id # list[j].id

\* C29: calling the unsubscribe function one addNetworkListener call
\* returned removes exactly the registration that call made: a step that
\* takes registrations of a callback away takes away one, so a callback
\* registered twice and unsubscribed once is still registered once.
UnsubscribeRemovesOne ==
  [][\A l \in ListenerIds :
       Registrations(networkListeners', l) < Registrations(networkListeners, l) =>
         Registrations(networkListeners', l) = Registrations(networkListeners, l) - 1]_vars

\* the cache entries of the store
CacheEntries(st) == [k \in CacheNames |-> st[CacheKey(k)]]

\* C30: cache and queue are separated in the shared store.  No step of
\* cacheData or getCachedData, eviction included, changes the
\* 'offline_queue' entry, and no step of queueOperation,
\* removeQueuedOperation or clearQueuedOperations changes a cache entry,
\* whatever the cache key.
CacheAndQueueSeparated ==
  [][/\ \A c \in CallSlots :
          /\ (calls'[c] # calls[c] /\ calls[c].kind \in {"cacheData", "getCachedData"}) =>
               store'[QueueKey] = store[QueueKey]
          /\ (calls'[c] # calls[c]
                /\ calls[c].kind \in {"queueOperation", "clearQueuedOperations"}) =>
               CacheEntries(store') = CacheEntries(store)
     /\ \A d \in DrainSlots :
          (drains'[d] # drains[d] /\ drains[d].pc \in {"rm_read", "rm_write"}) =>
            CacheEntries(store') = CacheEntries(store)]_vars

\* the queue has been cleared, after a removal by a pass and after the clock
\* has advanced, and the cache entry under the key 'offline_queue' is still
\* in the store
ClearedQueueBesideCache ==
  /\ \E c \in CallSlots : calls[c].kind = "clearQueuedOperations" /\ calls[c].pc = "done"
  /\ store[QueueKey] = Null
  /\ store[CacheKey(<<"offline_queue">>)] # Null
  /\ okCount[1] > 0 /\ Len(pushed) = MaxOps
  /\ now > 0
====
